---- MODULE Spec2Model ----
(***************************************************************************)
(* Model of apitest.py: a batch script that embeds every text of a         *)
(* spreadsheet column through a remote API, with an in-memory cache        *)
(* mirrored to a JSON file, a thread pool of workers and a CSV output      *)
(* opened in append mode.                                                  *)
(*                                                                         *)
(* One "task" is one call of process_text (one future of the executor).    *)
(* A task is identified by its position in the input (1-based here, the    *)
(* code's idx + 1).  Locks are modelled by their holder (Free or a task).  *)
(***************************************************************************)
EXTENDS Integers, Sequences, FiniteSets, TLC

\* ---------------------------------------------------------------- bounds
MaxTexts == 3       \* longest input column explored in a single run
MaxPool == 2        \* largest max_threads explored
MaxRuns == 2        \* number of consecutive runs of the script explored
MaxRerunTexts == 2  \* longest input column explored over consecutive runs
MaxFairTexts == 2   \* longest input column explored under fair scheduling
MaxFaultTexts == 2  \* longest input column explored in a run with failing writes

\* ---------------------------------------------------------------- values
Texts == {"alpha", "beta"}

\* A float is modelled by its JSON token.
Floats == {"1.0", "2.0"}

\* The embeddings the remote may answer with: the empty vector and two
\* different non-empty vectors.
Vectors == {<<>>} \cup {<<x>> : x \in Floats}

\* Python's None (the value get_embedding returns on failure).
None == <<"None">>

Free == 0

\* No task: every remote request is answered.
NoTask == 0

VARIABLES
    texts,        \* the input column, str(row).strip() of every non-empty cell
    max_threads,  \* the pool size handed to ThreadPoolExecutor
    run,          \* number of the current run of the script
    mainPc,       \* position of the main thread in process_excel_parallel
    cache,        \* the global dict cache
    cacheFile,    \* CACHE_FILE on disk
    output,       \* OUTPUT_CSV on disk (rows, in file order)
    cache_lock,   \* holder of cache_lock
    write_lock,   \* holder of write_lock
    pc,           \* position of every task
    embedding,    \* the local variable embedding of every task
    outcome,      \* how every task got its embedding: none, hit, ok, fail
    calls,        \* remote calls issued by every task in this run
    obtained,     \* history: (text, embedding) pairs the remote returned
                  \* in the previous run
    stuck         \* the task whose remote request is never answered, if any

vars == <<texts, max_threads, run, mainPc, cache, cacheFile, output,
          cache_lock, write_lock, pc, embedding, outcome, calls, obtained, stuck>>

Tasks == 1..Len(texts)

\* ------------------------------------------------------------ conversions
\* json.dumps of a list of floats, as a sequence of tokens.
Dumps(e) == <<"[">> \o e \o <<"]">>

\* json.loads of such a token sequence.
Loads(s) == SubSeq(s, 2, Len(s) - 1)

\* json.dump(cache, f): the JSON object as a set of (key, value text) members.
JsonDump(c) == {<<k, Dumps(c[k])>> : k \in DOMAIN c}

\* json.load(f): the dict of a JSON object.
JsonLoad(obj) ==
    [k \in {m[1] : m \in obj} |-> Loads((CHOOSE m \in obj : m[1] = k)[2])]

\* The row writer.writerow(["text", "embedding"]) writes.
Header == <<"text", <<"embedding">>>>

\* The row writer.writerow([text, json.dumps(embedding)]) writes.
Row(text, e) == <<text, Dumps(e)>>

\* Python truthiness of the value get_embedding returned (None and the
\* empty list are falsy).
Truthy(e) == e # None /\ e # <<>>

\* The dict after cache[text] = e.
Put(c, text, e) == [k \in DOMAIN c \cup {text} |-> IF k = text THEN e ELSE c[k]]

EmptyDict == [k \in {} |-> <<>>]

\* Tasks a worker thread is executing.
Running == {i \in Tasks : pc[i] \notin {"new", "pending", "done", "raised"}}

\* All sequences over S of length at most n.
SeqsUpTo(S, n) == UNION {[1..k -> S] : k \in 0..n}

\* The input columns explored.  The script never looks into a text, so
\* renaming the texts maps runs to runs: the first text is taken to be alpha.
Inputs(n) == {s \in SeqsUpTo(Texts, n) : s # <<>> => s[1] = "alpha"}

\* ------------------------------------------------------------------ Init
\* The script is started in a directory without a cache file; the output
\* file is absent or empty.  Which request hangs, if any, is left open.
Fresh ==
    /\ texts \in Inputs(MaxTexts)
    /\ max_threads \in 1..MaxPool
    /\ run = 1
    /\ mainPc = "start"
    /\ cache = EmptyDict
    /\ cacheFile = [exists |-> FALSE, parses |-> TRUE, content |-> {}]
    /\ output \in {[exists |-> FALSE, rows |-> <<>>], [exists |-> TRUE, rows |-> <<>>]}
    /\ cache_lock = Free
    /\ write_lock = Free
    /\ pc = [i \in Tasks |-> "new"]
    /\ embedding = [i \in Tasks |-> None]
    /\ outcome = [i \in Tasks |-> "none"]
    /\ calls = [i \in Tasks |-> 0]
    /\ obtained = {}

\* Every remote request is answered, by a result or by an error.
Init == Fresh /\ stuck = NoTask

\* ----------------------------------------------------------- main thread
\* load_cache(): read the cache file when it exists.
LoadCache ==
    /\ mainPc = "start"
    /\ IF cacheFile.exists
       THEN IF cacheFile.parses
            THEN /\ cache' = JsonLoad(cacheFile.content)
                 /\ mainPc' = "loaded"
            ELSE /\ mainPc' = "crashed"     \* json.load raises
                 /\ UNCHANGED cache
       ELSE /\ mainPc' = "loaded"
            /\ UNCHANGED cache
    /\ UNCHANGED <<texts, max_threads, run, cacheFile, output, cache_lock,
                   write_lock, pc, embedding, outcome, calls, obtained, stuck>>

\* Mutant of OpenOutput: the header is written without looking at the size.
OpenOutput_AlwaysHeader ==
    /\ mainPc = "loaded"
    /\ output' = [exists |-> TRUE, rows |-> Append(output.rows, Header)]
    /\ mainPc' = "opened"
    /\ UNCHANGED <<texts, max_threads, run, cache, cacheFile, cache_lock,
                   write_lock, pc, embedding, outcome, calls, obtained, stuck>>

\* open(output_csv, "a") creates the file when absent; the header is written
\* when the file is empty.
OpenOutput ==
    /\ mainPc = "loaded"
    /\ output' = [exists |-> TRUE,
                  rows |-> IF output.rows = <<>> THEN <<Header>> ELSE output.rows]
    /\ mainPc' = "opened"
    /\ UNCHANGED <<texts, max_threads, run, cache, cacheFile, cache_lock,
                   write_lock, pc, embedding, outcome, calls, obtained, stuck>>

\* The list comprehension of executor.submit: one future per text.
Submit ==
    /\ mainPc = "opened"
    /\ pc' = [i \in Tasks |-> "pending"]
    /\ mainPc' = "waiting"
    /\ UNCHANGED <<texts, max_threads, run, cache, cacheFile, output, cache_lock,
                   write_lock, embedding, outcome, calls, obtained, stuck>>

\* A future is finished when its call returned or raised.
Finished(i) == pc[i] \in {"done", "raised"}

\* Mutant of AllCompleted: the wait returns at the first finished future.
AllCompleted_First == \E i \in Tasks : Finished(i)

\* as_completed(futures) is exhausted once every future is finished.
AllCompleted == \A i \in Tasks : Finished(i)

\* The as_completed loop ends (no result() is ever taken), both with-blocks
\* are left and the completion message is printed.
Complete ==
    /\ mainPc = "waiting"
    /\ AllCompleted
    /\ mainPc' = "complete"
    /\ UNCHANGED <<texts, max_threads, run, cache, cacheFile, output, cache_lock,
                   write_lock, pc, embedding, outcome, calls, obtained, stuck>>

\* ---------------------------------------------------------------- workers
\* Mutant of Start: a thread is spawned for every queued task.
Start_NoLimit(i) ==
    /\ pc[i] = "pending"
    /\ \A j \in Tasks : j < i => pc[j] # "pending"
    /\ pc' = [pc EXCEPT ![i] = "lookup"]
    /\ UNCHANGED <<texts, max_threads, run, mainPc, cache, cacheFile, output,
                   cache_lock, write_lock, embedding, outcome, calls, obtained, stuck>>

\* A worker thread takes the oldest queued task (the executor's queue is
\* FIFO) and process_text prints its progress line.
Start(i) ==
    /\ pc[i] = "pending"
    /\ \A j \in Tasks : j < i => pc[j] # "pending"
    /\ Cardinality(Running) < max_threads
    /\ pc' = [pc EXCEPT ![i] = "lookup"]
    /\ UNCHANGED <<texts, max_threads, run, mainPc, cache, cacheFile, output,
                   cache_lock, write_lock, embedding, outcome, calls, obtained, stuck>>

\* Mutant of AfterGet: the row is written without testing the embedding.
AfterGet_NoTest(e) == "write"

\* Where process_text goes once get_embedding returned e: "if embedding:".
AfterGet(e) == IF Truthy(e) THEN "write" ELSE "done"

\* get_embedding, first "with cache_lock:".
AcquireLookup(i) ==
    /\ pc[i] = "lookup"
    /\ cache_lock = Free
    /\ cache_lock' = i
    /\ pc' = [pc EXCEPT ![i] = "in_lookup"]
    /\ UNCHANGED <<texts, max_threads, run, mainPc, cache, cacheFile, output,
                   write_lock, embedding, outcome, calls, obtained, stuck>>

\* Mutant of Lookup: the request is issued inside the with block, so a miss
\* keeps cache_lock while the remote is asked.
Lookup_HoldsLock(i) ==
    /\ pc[i] = "in_lookup"
    /\ IF texts[i] \in DOMAIN cache
       THEN /\ embedding' = [embedding EXCEPT ![i] = cache[texts[i]]]
            /\ outcome' = [outcome EXCEPT ![i] = "hit"]
            /\ pc' = [pc EXCEPT ![i] = AfterGet(cache[texts[i]])]
            /\ cache_lock' = Free
            /\ UNCHANGED calls
       ELSE /\ calls' = [calls EXCEPT ![i] = @ + 1]
            /\ pc' = [pc EXCEPT ![i] = "call"]
            /\ UNCHANGED <<embedding, outcome, cache_lock>>
    /\ UNCHANGED <<texts, max_threads, run, mainPc, cache, cacheFile, output,
                   write_lock, obtained, stuck>>

\* "if text in cache: return cache[text]"; on a miss the lock is released and
\* the remote request is issued.
Lookup(i) ==
    /\ pc[i] = "in_lookup"
    /\ cache_lock' = Free
    /\ IF texts[i] \in DOMAIN cache
       THEN /\ embedding' = [embedding EXCEPT ![i] = cache[texts[i]]]
            /\ outcome' = [outcome EXCEPT ![i] = "hit"]
            /\ pc' = [pc EXCEPT ![i] = AfterGet(cache[texts[i]])]
            /\ UNCHANGED calls
       ELSE /\ calls' = [calls EXCEPT ![i] = @ + 1]
            /\ pc' = [pc EXCEPT ![i] = "call"]
            /\ UNCHANGED <<embedding, outcome>>
    /\ UNCHANGED <<texts, max_threads, run, mainPc, cache, cacheFile, output,
                   write_lock, obtained, stuck>>

\* Mutant of RemoteReturn: the embedding is returned without being cached.
RemoteReturn_NoInsert(i, v) ==
    /\ pc[i] = "call"
    /\ i # stuck
    /\ embedding' = [embedding EXCEPT ![i] = v]
    /\ outcome' = [outcome EXCEPT ![i] = "ok"]
    /\ pc' = [pc EXCEPT ![i] = AfterGet(v)]
    /\ UNCHANGED <<texts, max_threads, run, mainPc, cache, cacheFile, output,
                   cache_lock, write_lock, calls, obtained, stuck>>

\* client.embeddings.create returns and response.data[0].embedding is v.
RemoteReturn(i, v) ==
    /\ pc[i] = "call"
    /\ i # stuck
    /\ embedding' = [embedding EXCEPT ![i] = v]
    /\ outcome' = [outcome EXCEPT ![i] = "ok"]
    /\ pc' = [pc EXCEPT ![i] = "insert"]
    /\ UNCHANGED <<texts, max_threads, run, mainPc, cache, cacheFile, output,
                   cache_lock, write_lock, calls, obtained, stuck>>

\* Mutant of RemoteFail: the except clause issues the request again.
RemoteFail_Retry(i) ==
    /\ pc[i] = "call"
    /\ i # stuck
    /\ calls' = [calls EXCEPT ![i] = @ + 1]
    /\ UNCHANGED <<texts, max_threads, run, mainPc, cache, cacheFile, output,
                   cache_lock, write_lock, pc, embedding, outcome, obtained, stuck>>

\* Mutant of RemoteFail: no except clause, the exception ends process_text.
RemoteFail_Raises(i) ==
    /\ pc[i] = "call"
    /\ i # stuck
    /\ outcome' = [outcome EXCEPT ![i] = "fail"]
    /\ pc' = [pc EXCEPT ![i] = "raised"]
    /\ UNCHANGED <<texts, max_threads, run, mainPc, cache, cacheFile, output,
                   cache_lock, write_lock, embedding, calls, obtained, stuck>>

\* The request raises: the except clause prints and returns None.
RemoteFail(i) ==
    /\ pc[i] = "call"
    /\ i # stuck
    /\ embedding' = [embedding EXCEPT ![i] = None]
    /\ outcome' = [outcome EXCEPT ![i] = "fail"]
    /\ pc' = [pc EXCEPT ![i] = AfterGet(None)]
    /\ UNCHANGED <<texts, max_threads, run, mainPc, cache, cacheFile, output,
                   cache_lock, write_lock, calls, obtained, stuck>>

\* get_embedding, second "with cache_lock:".
AcquireInsert(i) ==
    /\ pc[i] = "insert"
    /\ cache_lock = Free
    /\ cache_lock' = i
    /\ pc' = [pc EXCEPT ![i] = "in_insert"]
    /\ UNCHANGED <<texts, max_threads, run, mainPc, cache, cacheFile, output,
                   write_lock, embedding, outcome, calls, obtained, stuck>>

\* "cache[text] = embedding", then return embedding.
Insert(i) ==
    /\ pc[i] = "in_insert"
    /\ cache' = Put(cache, texts[i], embedding[i])
    /\ cache_lock' = Free
    /\ pc' = [pc EXCEPT ![i] = AfterGet(embedding[i])]
    /\ UNCHANGED <<texts, max_threads, run, mainPc, cacheFile, output,
                   write_lock, embedding, outcome, calls, obtained, stuck>>

\* Mutant of AcquireWrite: the row write is guarded by cache_lock.
AcquireWrite_CacheLock(i) ==
    /\ pc[i] = "write"
    /\ cache_lock = Free
    /\ cache_lock' = i
    /\ pc' = [pc EXCEPT ![i] = "in_write"]
    /\ UNCHANGED <<texts, max_threads, run, mainPc, cache, cacheFile, output,
                   write_lock, embedding, outcome, calls, obtained, stuck>>

\* Mutant of AcquireWrite: the row is written without waiting for the lock.
AcquireWrite_NoWait(i) ==
    /\ pc[i] = "write"
    /\ write_lock' = i
    /\ pc' = [pc EXCEPT ![i] = "in_write"]
    /\ UNCHANGED <<texts, max_threads, run, mainPc, cache, cacheFile, output,
                   cache_lock, embedding, outcome, calls, obtained, stuck>>

\* process_text, "with write_lock:".
AcquireWrite(i) ==
    /\ pc[i] = "write"
    /\ write_lock = Free
    /\ write_lock' = i
    /\ pc' = [pc EXCEPT ![i] = "in_write"]
    /\ UNCHANGED <<texts, max_threads, run, mainPc, cache, cacheFile, output,
                   cache_lock, embedding, outcome, calls, obtained, stuck>>

\* Mutant of WriteRow: process_text returns without calling save_cache.
WriteRow_NoSave(i) ==
    /\ pc[i] = "in_write"
    /\ output' = [output EXCEPT !.rows = Append(@, Row(texts[i], embedding[i]))]
    /\ write_lock' = Free
    /\ pc' = [pc EXCEPT ![i] = "done"]
    /\ UNCHANGED <<texts, max_threads, run, mainPc, cache, cacheFile,
                   cache_lock, embedding, outcome, calls, obtained, stuck>>

\* writer.writerow([text, json.dumps(embedding)]).
WriteRow(i) ==
    /\ pc[i] = "in_write"
    /\ output' = [output EXCEPT !.rows = Append(@, Row(texts[i], embedding[i]))]
    /\ write_lock' = Free
    /\ pc' = [pc EXCEPT ![i] = "save"]
    /\ UNCHANGED <<texts, max_threads, run, mainPc, cache, cacheFile,
                   cache_lock, embedding, outcome, calls, obtained, stuck>>

\* Mutant of AcquireSave: save_cache dumps the cache without taking the lock.
AcquireSave_NoLock(i) ==
    /\ pc[i] = "save"
    /\ pc' = [pc EXCEPT ![i] = "in_save"]
    /\ UNCHANGED <<texts, max_threads, run, mainPc, cache, cacheFile, output,
                   cache_lock, write_lock, embedding, outcome, calls, obtained,
                   stuck>>

\* save_cache, "with cache_lock:".
AcquireSave(i) ==
    /\ pc[i] = "save"
    /\ cache_lock = Free
    /\ cache_lock' = i
    /\ pc' = [pc EXCEPT ![i] = "in_save"]
    /\ UNCHANGED <<texts, max_threads, run, mainPc, cache, cacheFile, output,
                   write_lock, embedding, outcome, calls, obtained, stuck>>

\* open(CACHE_FILE, "w") and json.dump(cache, f): the file is rewritten in full.
SaveCache(i) ==
    /\ pc[i] = "in_save"
    /\ cacheFile' = [exists |-> TRUE, parses |-> TRUE, content |-> JsonDump(cache)]
    /\ cache_lock' = Free
    /\ pc' = [pc EXCEPT ![i] = "done"]
    /\ UNCHANGED <<texts, max_threads, run, mainPc, cache, output,
                   write_lock, embedding, outcome, calls, obtained, stuck>>

\* ------------------------------------------------------------ a new run
\* (text, embedding) pairs the remote returned in the current run.
ObtainedNow == {<<texts[i], embedding[i]>> : i \in {j \in Tasks : outcome[j] = "ok"}}

\* The script is started again on the same spreadsheet: a new process, whose
\* module-level state is fresh; the two files are what the last run left.
Rerun ==
    /\ mainPc = "complete"
    /\ run < MaxRuns
    /\ run' = run + 1
    /\ mainPc' = "start"
    /\ cache' = EmptyDict
    /\ cache_lock' = Free
    /\ write_lock' = Free
    /\ pc' = [i \in Tasks |-> "new"]
    /\ embedding' = [i \in Tasks |-> None]
    /\ outcome' = [i \in Tasks |-> "none"]
    /\ calls' = [i \in Tasks |-> 0]
    /\ obtained' = ObtainedNow
    /\ UNCHANGED <<texts, max_threads, cacheFile, output, stuck>>

\* ------------------------------------------------------- failing writes
\* writer.writerow raises (disk full, ...): the with statement releases
\* write_lock and the exception ends process_text; the executor stores it in
\* the task's future.
WriteRowFails(i) ==
    /\ pc[i] = "in_write"
    /\ write_lock' = Free
    /\ pc' = [pc EXCEPT ![i] = "raised"]
    /\ UNCHANGED <<texts, max_threads, run, mainPc, cache, cacheFile, output,
                   cache_lock, embedding, outcome, calls, obtained, stuck>>

\* Mutant of SaveCacheFails: acquire and release without a with statement,
\* so an exception leaves cache_lock held.
SaveCacheFails_KeepsLock(i) ==
    /\ pc[i] = "in_save"
    /\ cacheFile' \in {cacheFile, [exists |-> TRUE, parses |-> FALSE, content |-> {}]}
    /\ pc' = [pc EXCEPT ![i] = "raised"]
    /\ UNCHANGED <<texts, max_threads, run, mainPc, cache, output, cache_lock,
                   write_lock, embedding, outcome, calls, obtained, stuck>>

\* open(CACHE_FILE, "w") raises and the file is as it was, or json.dump raises
\* after open truncated the file; both with statements are left, cache_lock
\* is released and the exception ends process_text.
SaveCacheFails(i) ==
    /\ pc[i] = "in_save"
    /\ cacheFile' \in {cacheFile, [exists |-> TRUE, parses |-> FALSE, content |-> {}]}
    /\ cache_lock' = Free
    /\ pc' = [pc EXCEPT ![i] = "raised"]
    /\ UNCHANGED <<texts, max_threads, run, mainPc, cache, output,
                   write_lock, embedding, outcome, calls, obtained, stuck>>

\* ------------------------------------------------------------------ Next
Worker(i) ==
    \/ Start(i)
    \/ AcquireLookup(i)
    \/ Lookup(i)
    \/ \E v \in Vectors : RemoteReturn(i, v)
    \/ RemoteFail(i)
    \/ AcquireInsert(i)
    \/ Insert(i)
    \/ AcquireWrite(i)
    \/ WriteRow(i)
    \/ AcquireSave(i)
    \/ SaveCache(i)

\* One run of the script in a fresh directory, every write succeeding.
Next ==
    \/ LoadCache
    \/ OpenOutput
    \/ Submit
    \/ Complete
    \/ \E i \in Tasks : Worker(i)

Spec == Init /\ [][Next]_vars

\* The same run under a fair scheduler: a thread that can take a step is
\* eventually run, and every remote request returns or raises.
InitFair == Init /\ Len(texts) <= MaxFairTexts

FairSpec == InitFair /\ [][Next]_vars /\ WF_vars(Next)

\* The same run when the request of one task is never answered: the other
\* requests return or raise and the scheduler is fair.
InitStuck == Fresh /\ Len(texts) <= MaxFairTexts /\ stuck \in Tasks

StuckSpec == InitStuck /\ [][Next]_vars /\ WF_vars(Next)

\* Consecutive runs of the script on the same spreadsheet and files.
InitRuns == Init /\ Len(texts) <= MaxRerunTexts

NextRuns == Next \/ Rerun

SpecRuns == InitRuns /\ [][NextRuns]_vars

\* Consecutive runs in which writes to the two files may fail.
NextFaults ==
    \/ NextRuns
    \/ \E i \in Tasks : WriteRowFails(i)
    \/ \E i \in Tasks : SaveCacheFails(i)

SpecFaults == InitRuns /\ [][NextFaults]_vars

\* One run in a fresh directory in which writes to the two files may fail.
InitWriteFaults == Init /\ Len(texts) <= MaxFaultTexts

NextWriteFaults ==
    \/ Next
    \/ \E i \in Tasks : WriteRowFails(i)
    \/ \E i \in Tasks : SaveCacheFails(i)

SpecWriteFaults == InitWriteFaults /\ [][NextWriteFaults]_vars

\* =================================================================== claims
\* Tasks whose text is T.
TasksOf(T) == {i \in Tasks : texts[i] = T}

RECURSIVE SumCalls(_)
SumCalls(S) ==
    IF S = {} THEN 0
    ELSE LET i == CHOOSE j \in S : TRUE IN calls[i] + SumCalls(S \ {i})

\* Remote calls issued for text T in the current run.
CallsFor(T) == SumCalls(TasksOf(T))

\* Number of rows of the output file that are equal to r.
RowCount(r) == Cardinality({k \in 1..Len(output.rows) : output.rows[k] = r})

\* Keys of the JSON object in the cache file.
FileKeys == {m[1] : m \in cacheFile.content}

\* Tasks that obtained an embedding, by a cache hit or from the remote.
Obtained(i) == outcome[i] \in {"hit", "ok"}

\* C1: with inputs alpha, beta, alpha, an empty cache and a remote that
\* always succeeds (answering [1.0] for alpha and [2.0] for beta), a finished
\* run has issued exactly 2 remote calls, for every pool size and every
\* interleaving.
C1_ExactlyTwoCalls ==
    (/\ texts = <<"alpha", "beta", "alpha">>
     /\ mainPc = "complete"
     /\ \A i \in Tasks : outcome[i] # "fail"
     /\ \A i \in TasksOf("alpha") : embedding[i] = <<"1.0">>
     /\ \A i \in TasksOf("beta") : embedding[i] = <<"2.0">>)
    => CallsFor("alpha") + CallsFor("beta") = 2

\* C2: a task issues at most one remote call, and none when its lookup hit
\* the cache; a text that occurs once in the input is requested at most once.
C2_AtMostOneCallPerTask ==
    /\ \A i \in Tasks : calls[i] <= 1
    /\ \A i \in Tasks : outcome[i] = "hit" => calls[i] = 0
    /\ \A T \in Texts : Cardinality(TasksOf(T)) = 1 => CallsFor(T) <= 1

\* A finished run in which one task hit the cache, one task's request
\* failed and the text of the failed request occurs once.
C2_Witness ==
    /\ mainPc = "complete"
    /\ \E i \in Tasks : outcome[i] = "hit" /\ calls[i] = 0
    /\ \E j \in Tasks :
          /\ outcome[j] = "fail"
          /\ calls[j] = 1
          /\ Cardinality(TasksOf(texts[j])) = 1

\* C3: whatever the remote returned for T in a completed run, the next run
\* issues no remote call for T and every task for T uses that embedding.
C3_IdempotentAcrossRuns ==
    run > 1 =>
        \A p \in obtained :
            \A i \in TasksOf(p[1]) :
                /\ calls[i] = 0
                /\ Finished(i) => (outcome[i] = "hit" /\ embedding[i] = p[2])

\* C4: when the run has finished, the rows (T, E) of the output are exactly
\* as many as the tasks for T that obtained E, for every text and embedding.
C4_Completeness ==
    mainPc = "complete" =>
        \A T \in Texts : \A e \in Vectors :
            RowCount(Row(T, e)) =
                Cardinality({i \in TasksOf(T) : Obtained(i) /\ embedding[i] = e})

\* C5: when the run has finished, a text whose remote calls all failed has
\* no row in the output and no entry in the cache or in the cache file; when
\* every request failed the output is the header alone and the cache is empty.
C5_SkipOnFailure ==
    mainPc = "complete" =>
        /\ \A T \in Texts :
              (/\ CallsFor(T) > 0
               /\ \A i \in TasksOf(T) : calls[i] > 0 => outcome[i] = "fail")
              => /\ \A k \in 1..Len(output.rows) : output.rows[k][1] # T
                 /\ T \notin DOMAIN cache
                 /\ T \notin FileKeys
        /\ (\A i \in Tasks : outcome[i] = "fail")
              => /\ output.rows = <<Header>>
                 /\ cache = EmptyDict
                 /\ FileKeys = {}

\* A finished run in which every request for one text failed (two of them)
\* while another text got a row.
C5_Witness ==
    /\ mainPc = "complete"
    /\ \E T \in Texts :
          /\ Cardinality(TasksOf(T)) = 2
          /\ \A i \in TasksOf(T) : outcome[i] = "fail"
    /\ Len(output.rows) = 2

\* C6: from the moment a run has opened the output file, and after every
\* run, the file has exactly one header row and it is the first row.
C6_HeaderInvariant ==
    (mainPc \in {"opened", "waiting", "complete"} \/ run > 1) =>
        /\ output.exists
        /\ output.rows # <<>>
        /\ output.rows[1] = Header
        /\ \A k \in 2..Len(output.rows) : output.rows[k] # Header

\* The end of a second run that appended a row, after a first run that
\* appended none (the file it left held the header alone).
C6_Witness ==
    /\ run > 1
    /\ mainPc = "complete"
    /\ obtained = {}
    /\ Len(output.rows) = 2
    /\ output.rows[2][1] = "alpha"

\* C7: a failed write inside a task ends the run: the completion message is
\* not printed and no other task goes on.
C7_WriteFailureIsFatal ==
    (\E i \in Tasks : pc[i] = "raised") => mainPc # "complete"

\* C8: whatever requests fail, every scheduled task eventually completes and
\* the run reaches its end.
C8_FailureContainment ==
    /\ \A i \in 1..MaxFairTexts :
          (i \in Tasks /\ pc[i] = "pending") ~> (i \in Tasks /\ pc[i] = "done")
    /\ (mainPc = "waiting") ~> (mainPc = "complete")

\* A finished run in which a request failed before a later task was started
\* and completed with a row.
C8_Witness ==
    /\ mainPc = "complete"
    /\ \E i, j \in Tasks :
          /\ i < j
          /\ outcome[i] = "fail"
          /\ outcome[j] = "ok"
          /\ output.rows = <<Header, Row(texts[j], embedding[j])>>

\* C9: the run is announced complete only when every task has finished.
C9_CompleteAfterAllTasks ==
    mainPc = "complete" => \A i \in Tasks : pc[i] = "done"

\* A finished run of three tasks: two recorded a row, one was skipped.
C9_Witness ==
    /\ mainPc = "complete"
    /\ Len(texts) = 3
    /\ Len(output.rows) = 3

\* C10: once the cache holds a value for a text, no step replaces it.
C10_WriteOnce ==
    [][\A T \in Texts :
          T \in DOMAIN cache => (T \in DOMAIN cache' /\ cache'[T] = cache[T])]_vars

\* Tasks that have appended their row (the row is written before pc leaves
\* in_write, and only for a truthy embedding).
Wrote(i) == pc[i] \in {"save", "in_save", "done", "raised"} /\ Truthy(embedding[i])

\* C11: once a task that appended a row for T has completed, the cache file
\* has an entry for T; at the end of the run the file has an entry for every
\* text with a row written in this run.
C11_PersistAfterRow ==
    /\ \A i \in Tasks :
          (Finished(i) /\ Wrote(i)) => (cacheFile.exists /\ texts[i] \in FileKeys)
    /\ mainPc = "complete" =>
          \A k \in 2..Len(output.rows) : output.rows[k][1] \in FileKeys

\* A task that appended a row has completed while a task for the other text
\* that was saved later in the run is still running.
C11_Witness ==
    \E i, j \in Tasks :
        /\ pc[i] = "done"
        /\ Wrote(i)
        /\ texts[j] # texts[i]
        /\ pc[j] = "in_save"
        /\ FileKeys = {texts[i]}

\* C12: at most max_threads tasks are in progress, and a task is started
\* only when fewer than max_threads tasks are in progress.
C12_PoolBound ==
    /\ [](Cardinality(Running) <= max_threads)
    /\ [][\A i \in Tasks :
             (pc[i] = "pending" /\ pc'[i] # "pending")
             => Cardinality(Running) < max_threads]_vars

\* The pool of two threads is full and a third task waits in the queue.
C12_Witness ==
    /\ max_threads = 2
    /\ Cardinality(Running) = 2
    /\ \E i \in Tasks : pc[i] = "pending"

\* C13: with a pool of at least 2 threads, every task other than the one
\* whose request hangs eventually completes, and a run with a hanging request
\* is never announced complete.
C13_StuckCallStallsOneSlot ==
    /\ \A i \in 1..MaxFairTexts :
          (i \in Tasks /\ max_threads >= 2 /\ i # stuck /\ pc[i] = "pending")
          ~> (i \in Tasks /\ pc[i] = "done")
    /\ []((stuck \in Tasks /\ calls[stuck] > 0) => mainPc # "complete")

\* The request of one task hangs while another task, whose request was
\* issued in the meantime, has completed with a row.
C13_Witness ==
    /\ max_threads >= 2
    /\ stuck \in Tasks
    /\ pc[stuck] = "call"
    /\ \E j \in Tasks : j # stuck /\ pc[j] = "done" /\ outcome[j] = "ok" /\ Wrote(j)
    /\ \A j \in Tasks : j # stuck => pc[j] = "done"

\* C14: a task inserts (on a miss), then appends its row, then persists: a
\* task at or past the row write has its text in the cache, a task at the
\* persist has its row in the output, the cache file is only there once a
\* task that wrote its row has persisted, and the text of every row appended
\* in the run is a key of the cache from the moment the row is written.
C14_InsertWritePersist ==
    /\ \A i \in Tasks :
          pc[i] \in {"write", "in_write", "save", "in_save"}
          => texts[i] \in DOMAIN cache
    /\ \A i \in Tasks :
          pc[i] \in {"save", "in_save"}
          => RowCount(Row(texts[i], embedding[i])) >= 1
    /\ cacheFile.exists => \E i \in Tasks : Wrote(i) /\ pc[i] = "done"
    /\ \A k \in 2..Len(output.rows) : output.rows[k][1] \in DOMAIN cache

\* A task has inserted its embedding and appended its row, and has not yet
\* persisted: the cache file does not exist yet.
C14_Witness ==
    \E i \in Tasks :
        /\ pc[i] = "save"
        /\ outcome[i] = "ok"
        /\ output.rows = <<Header, Row(texts[i], embedding[i])>>
        /\ texts[i] \in DOMAIN cache
        /\ ~cacheFile.exists

\* C15: a task is inside the row write only while it holds write_lock, so at
\* most one task is; every row appended by a worker is the whole row of the
\* holder of write_lock, appended before the lock is released.
C15_RowWritesExclusive ==
    /\ [](\A i \in Tasks : pc[i] = "in_write" => write_lock = i)
    /\ [](Cardinality({i \in Tasks : pc[i] = "in_write"}) <= 1)
    /\ [][(mainPc = "waiting" /\ output.rows' # output.rows)
          => /\ write_lock \in Tasks
             /\ pc[write_lock] = "in_write"
             /\ output.rows' =
                   Append(output.rows, Row(texts[write_lock], embedding[write_lock]))
             /\ write_lock' = Free]_vars

\* One task is writing its row while another waits for write_lock.
C15_Witness ==
    \E i, j \in Tasks :
        /\ pc[i] = "in_write"
        /\ write_lock = i
        /\ pc[j] = "write"

\* Task i is inside a file operation: writer.writerow on the output file, or
\* open and json.dump on the cache file.
DoingIO(i) == pc[i] \in {"in_write", "in_save"}

\* Task i has reached the first "with cache_lock:" of get_embedding and the
\* lock is held by h, which is inside a file operation.
LookupWaitsOnIO(i, h) ==
    /\ pc[i] = "lookup"
    /\ cache_lock = h
    /\ DoingIO(h)

\* C16 (as claimed): no task waits for cache_lock for its lookup while the
\* holder of the lock is performing file I/O.
C16_LookupNeverWaitsOnIO ==
    \A i, h \in Tasks : ~LookupWaitsOnIO(i, h)

\* C16 (amended): a task that waits for cache_lock for its lookup while the
\* holder performs file I/O waits for a save_cache that rewrites the cache
\* file; the output row is never written under cache_lock.
C16_LookupWaitsOnlyOnPersist ==
    /\ \A i, h \in Tasks : LookupWaitsOnIO(i, h) => pc[h] = "in_save"
    /\ \A h \in Tasks : pc[h] = "in_write" => cache_lock # h

\* A task waits for its lookup while another task, inside save_cache, holds
\* cache_lock and rewrites the cache file.
C16_Witness ==
    \E i, h \in Tasks :
        /\ LookupWaitsOnIO(i, h)
        /\ pc[h] = "in_save"
        /\ texts[i] \in DOMAIN cache

\* Some worker thread can take a step.
WorkerStep == \E i \in Tasks : Worker(i)

\* C17: no task holds cache_lock and write_lock together; a lock is held
\* only by a task inside the section it guards, also after a write or a
\* persist has failed; and while a task is unfinished some worker can take a
\* step (every remote request being answered).
C17_LocksNeverDeadlock ==
    /\ \A i \in Tasks : ~(cache_lock = i /\ write_lock = i)
    /\ cache_lock \in Tasks \cup {Free}
    /\ write_lock \in Tasks \cup {Free}
    /\ \A i \in Tasks :
          cache_lock = i => pc[i] \in {"in_lookup", "in_insert", "in_save"}
    /\ \A i \in Tasks : write_lock = i => pc[i] = "in_write"
    /\ (mainPc = "waiting" /\ ~AllCompleted) => ENABLED WorkerStep

\* A persist has failed (its task ended with the exception), cache_lock is
\* free again and another task is at its lookup.
C17_Witness ==
    \E i, j \in Tasks :
        /\ pc[i] = "raised"
        /\ Wrote(i)
        /\ cacheFile.exists
        /\ ~cacheFile.parses
        /\ cache_lock = Free
        /\ pc[j] = "lookup"

\* Task i has put the embedding the remote returned into the cache.
Inserted(i) == outcome[i] = "ok" /\ pc[i] \notin {"call", "insert", "in_insert"}

\* C18: the key set of the cache only grows; the cache file only changes by
\* becoming the dump of the whole cache of that moment; every entry of the
\* file is an entry some task inserted into the cache earlier in the run and
\* its key is still a key of the cache; and the cache does not change while
\* a task is inside save_cache.
C18_FileIsSnapshot ==
    /\ [][DOMAIN cache \subseteq DOMAIN cache']_vars
    /\ [][cacheFile' # cacheFile
          => (cacheFile'.exists /\ cacheFile'.content = JsonDump(cache))]_vars
    /\ [](cacheFile.exists =>
             \A m \in cacheFile.content :
                 /\ m[1] \in DOMAIN cache
                 /\ \E i \in TasksOf(m[1]) :
                       Inserted(i) /\ Loads(m[2]) = embedding[i])
    /\ [][(\E i \in Tasks : pc[i] = "in_save") => cache' = cache]_vars

\* The cache file lags the cache: a persist is in progress while a task with
\* an embedding for a text the file does not hold waits to insert it.
C18_Witness ==
    \E i, j \in Tasks :
        /\ pc[i] = "in_save"
        /\ pc[j] = "insert"
        /\ cacheFile.exists
        /\ texts[j] \notin FileKeys
        /\ FileKeys # {}

====
